---- MODULE Spec2Model ----
(***************************************************************************)
(* A model of code_dependency.py: the branch classifier (list_branches),   *)
(* the commit history extractor (get_commit_history), the two manifest     *)
(* readers (get_package_versions, extract_dependency_version), the import  *)
(* extractor (extract_imports), the commit traversal of                    *)
(* extract_dependencies, and the __main__ script that runs them and writes *)
(* the report files.                                                       *)
(*                                                                         *)
(* A Python str is a sequence of one-character strings, so that strip,     *)
(* replace, endswith, split, the f-strings and the regular expressions are *)
(* computed character by character.  Opaque identifiers that the code      *)
(* only copies (a commit's sha, an author) are TLA+ strings.               *)
(***************************************************************************)
EXTENDS Integers, Sequences, FiniteSets, TLC

\* ------------------------------------------------------------------ bounds
\* loop iterations of one traversal of extract_dependencies, the commits
\* taken from the repository plus the modified files visited: of the call the
\* script makes, of a call with other arguments, and within a whole run of
\* the script
MaxWork == 5
MaxCallWork == 3
MaxMainWork == 3
\* branches of the repository given to list_branches
MaxBranches == 4
\* commits of a branch, and branch names given to get_commit_history
MaxLog == 2
MaxHistoryBranches == 2
\* lines of requirements.txt
MaxManifest == 2

\* ----------------------------------------------------------------- strings
\* Python's None where a str is expected: a value no str is equal to
None == <<"None">>

Lower == {"a","b","c","d","e","f","g","h","i","j","k","l","m",
          "n","o","p","q","r","s","t","u","v","w","x","y","z"}
Upper == {"A","B","C","D","E","F","G","H","I","J","K","L","M",
          "N","O","P","Q","R","S","T","U","V","W","X","Y","Z"}
Digit == {"0","1","2","3","4","5","6","7","8","9"}
\* \w of the re module (ASCII part)
Word == Lower \cup Upper \cup Digit \cup {"_"}
\* what str.strip() removes
Whitespace == {" ", "\n", "\t", "\r"}

Range(s) == {s[i] : i \in 1..Len(s)}

\* the lists of length n over the set S
RECURSIVE ListsOfLen(_, _)
ListsOfLen(S, n) ==
    IF n = 0 THEN {<<>>}
    ELSE {Append(l, x) : l \in ListsOfLen(S, n - 1), x \in S}

ListsUpTo(S, n) == UNION {ListsOfLen(S, k) : k \in 0..n}

\* s.endswith(suffix)
EndsWith(s, suffix) ==
    /\ Len(s) >= Len(suffix)
    /\ SubSeq(s, Len(s) - Len(suffix) + 1, Len(s)) = suffix

\* s.strip()
RECURSIVE LStrip(_)
LStrip(s) ==
    IF s # <<>> /\ Head(s) \in Whitespace THEN LStrip(Tail(s)) ELSE s

RECURSIVE RStrip(_)
RStrip(s) ==
    IF s # <<>> /\ s[Len(s)] \in Whitespace
    THEN RStrip(SubSeq(s, 1, Len(s) - 1)) ELSE s

Strip(s) == RStrip(LStrip(s))

\* s.replace(ch, '') for a one-character ch
RemoveChar(s, ch) == SelectSeq(s, LAMBDA c : c # ch)

\* s.split(ch)[0]: the part of s before the first ch, all of s when it has none
RECURSIVE SplitFirst(_, _)
SplitFirst(s, ch) ==
    IF s = <<>> \/ Head(s) = ch THEN <<>>
    ELSE <<Head(s)>> \o SplitFirst(Tail(s), ch)

\* the longest prefix of s whose characters are all in the class cls
RECURSIVE TakeWhile(_, _)
TakeWhile(s, cls) ==
    IF s # <<>> /\ Head(s) \in cls
    THEN <<Head(s)>> \o TakeWhile(Tail(s), cls) ELSE <<>>

\* s without its first n characters
Drop(s, n) == SubSeq(s, n + 1, Len(s))

\* str(n) for n >= 0
RECURSIVE ToDecimal(_)
ToDecimal(n) ==
    LET d == <<"0","1","2","3","4","5","6","7","8","9">>[(n % 10) + 1]
    IN  IF n < 10 THEN <<d>> ELSE Append(ToDecimal(n \div 10), d)

\* the orders in which iterating a Python set of str can yield its members:
\* the order follows the strings' hashes, which are salted per process
ListOfSet(S) ==
    {l \in [1..Cardinality(S) -> S] : Range(l) = S}

\* ------------------------------------------------------- extract_imports
\* A module's source is its syntax tree when it parses: a list of statements,
\* each an Import (names), an ImportFrom (module, names) or a FunctionDef (body).
Import(names) == [node |-> "Import", names |-> names]
ImportFrom(module, names) == [node |-> "ImportFrom", module |-> module, names |-> names]
FunctionDef(body) == [node |-> "FunctionDef", body |-> body]

\* the child statements of a node, in field order
Children(n) == IF n.node = "FunctionDef" THEN n.body ELSE <<>>

\* ast.walk: breadth first, from a queue of nodes
RECURSIVE Walk(_)
Walk(todo) ==
    IF todo = <<>> THEN <<>>
    ELSE <<Head(todo)>> \o Walk(Tail(todo) \o Children(Head(todo)))

\* f"{module}": the module name, or the text None for a relative import
FormatModule(module) == IF module = None THEN <<"N","o","n","e">> ELSE module

\* the names one import node contributes
NodeModules(n) ==
    IF n.node = "Import" THEN n.names
    ELSE [i \in 1..Len(n.names) |-> FormatModule(n.module) \o <<".">> \o n.names[i]]

RECURSIVE Flatten(_)
Flatten(ls) == IF ls = <<>> THEN <<>> ELSE Head(ls) \o Flatten(Tail(ls))

\* extract_imports with an except clause that takes every exception for an
\* empty list of imports
extract_imports_swallow(source_code) ==
    IF source_code.parse = "SyntaxError" THEN [kind |-> "None"]
    ELSE IF source_code.parse # "ok" THEN [kind |-> "list", value |-> <<>>]
    ELSE LET imports == SelectSeq(Walk(source_code.body),
                                  LAMBDA n : n.node \in {"Import", "ImportFrom"})
         IN  [kind |-> "list",
              value |-> Flatten([i \in 1..Len(imports) |-> NodeModules(imports[i])])]

\* extract_imports(source_code): the list of imported names, None on a
\* SyntaxError, and any other exception of ast.parse is raised to the caller
extract_imports(source_code) ==
    IF source_code.parse = "SyntaxError" THEN [kind |-> "None"]
    ELSE IF source_code.parse # "ok" THEN [kind |-> "raise", exc |-> source_code.parse]
    ELSE LET imports == SelectSeq(Walk(source_code.body),
                                  LAMBDA n : n.node \in {"Import", "ImportFrom"})
         IN  [kind |-> "list",
              value |-> Flatten([i \in 1..Len(imports) |-> NodeModules(imports[i])])]

\* ------------------------------------------------------------ the files
\* a file is the text written to it, one string
RECURSIVE Concat(_)
Concat(strs) == IF strs = <<>> THEN <<>> ELSE Head(strs) \o Concat(Tail(strs))

\* each string of the list followed by a newline, as one text
Lines(strs) == Concat([i \in 1..Len(strs) |-> strs[i] \o <<"\n">>])

\* s.split(ch)
RECURSIVE Split(_, _)
Split(s, ch) ==
    LET first == SplitFirst(s, ch)
    IN  IF Len(first) = Len(s) THEN <<s>>
        ELSE <<first>> \o Split(Drop(s, Len(first) + 1), ch)

\* ch.join(strs)
RECURSIVE Join(_, _)
Join(strs, ch) ==
    IF strs = <<>> THEN <<>>
    ELSE IF Len(strs) = 1 THEN Head(strs)
    ELSE Head(strs) \o <<ch>> \o Join(Tail(strs), ch)

\* the list without the first occurrence of x: list.remove(x)
RECURSIVE Remove(_, _)
Remove(l, x) ==
    IF l = <<>> THEN <<>>
    ELSE IF Head(l) = x THEN Tail(l)
    ELSE <<Head(l)>> \o Remove(Tail(l), x)

\* ---------------------------------------------------------- list_branches
\* The repository as GitPython shows it: git.branches the branch names in
\* the order of the refs, git.active the branch checked out, git.merged the
\* branches merged into it (itself among them), git.log the commits of each
\* branch, newest first.

\* repo.git.branch('--merged'): a line for each merged branch, two columns of
\* marker ("* " for the branch checked out) and the name
GitBranchMerged(git) ==
    LET merged == SelectSeq(git.branches, LAMBDA b : b \in git.merged)
    IN  Join([i \in 1..Len(merged) |->
                 (IF merged[i] = git.active THEN <<"*"," ">> ELSE <<" "," ">>) \o merged[i]],
             "\n")

MERGED_HEADING == <<"M","e","r","g","e","d"," ","b","r","a","n","c","h","e","s",":","\n">>
UNMERGED_HEADING == <<"\n","U","n","m","e","r","g","e","d"," ","b","r","a","n","c","h","e","s",":","\n">>

\* lines 20-23 without the removal
WithoutCurrent_kept(unmerged_branches, current_branch) == unmerged_branches

\* lines 20-23
WithoutCurrent(unmerged_branches, current_branch) ==
    IF current_branch \in Range(unmerged_branches)
    THEN Remove(unmerged_branches, current_branch)
    ELSE unmerged_branches

\* lines 26-33
BranchesFile(merged_branches, unmerged_branches) ==
    MERGED_HEADING \o Lines(merged_branches) \o UNMERGED_HEADING \o Lines(unmerged_branches)

\* list_branches(repo): what it can return and write, one result for each
\* order in which the set of line 18 can be listed
list_branches(git) ==
    LET all_branches == git.branches
        output == Split(GitBranchMerged(git), "\n")
        merged_branches == [i \in 1..Len(output) |-> Strip(output[i])]
    IN  { [merged_branches |-> merged_branches,
           unmerged_branches |-> WithoutCurrent(l, git.active),
           file |-> BranchesFile(merged_branches, WithoutCurrent(l, git.active))] :
          l \in ListOfSet(Range(all_branches) \ Range(merged_branches)) }

\* ------------------------------------------------------ get_commit_history
\* A commit as GitPython shows it: hexsha, author, committed_date, message
\* and the files of its stats.  A committed_date is its era and the second
\* of the day: "day0" is 1 January 1970 (UTC), "year>9999" a time no
\* datetime can hold, "beyond time_t" one the platform cannot convert.

\* datetime.fromtimestamp: the exception it raises, or "ok"
FromTimestamp(committed_date) ==
    IF committed_date.era = "year>9999" THEN "ValueError"
    ELSE IF committed_date.era = "beyond time_t" THEN "OverflowError"
    ELSE "ok"

TwoDigits(n) == ToDecimal(n \div 10) \o ToDecimal(n % 10)

\* strftime('%Y-%m-%d %H:%M:%S') of a time of day0
FormatDate(committed_date) ==
    <<"1","9","7","0","-","0","1","-","0","1"," ">> \o TwoDigits(committed_date.secs \div 3600) \o <<":">>
        \o TwoDigits((committed_date.secs \div 60) % 60) \o <<":">>
        \o TwoDigits(committed_date.secs % 60)

\* lines 59-70
CommitInfo(commit) ==
    [sha |-> commit.hexsha,
     author |-> commit.author,
     date |-> FormatDate(commit.committed_date),
     message |-> Strip(commit.message),
     files |-> commit.files]

\* lines 56-77 with a loop that ends at the first commit it cannot format
RECURSIVE HistoryOfCommits_break(_, _)
HistoryOfCommits_break(commits, commit_history) ==
    IF commits = <<>> THEN [raises |-> FALSE, value |-> commit_history]
    ELSE IF FromTimestamp(Head(commits).committed_date) = "ok"
    THEN HistoryOfCommits_break(Tail(commits), Append(commit_history, CommitInfo(Head(commits))))
    ELSE IF FromTimestamp(Head(commits).committed_date) = "ValueError"
    THEN [raises |-> FALSE, value |-> commit_history]
    ELSE [raises |-> TRUE, value |-> commit_history]

\* lines 56-77: the history after the commits of one branch; a ValueError is
\* printed and the commit left out, any other exception ends the call
RECURSIVE HistoryOfCommits(_, _)
HistoryOfCommits(commits, commit_history) ==
    IF commits = <<>> THEN [raises |-> FALSE, value |-> commit_history]
    ELSE IF FromTimestamp(Head(commits).committed_date) = "ok"
    THEN HistoryOfCommits(Tail(commits), Append(commit_history, CommitInfo(Head(commits))))
    ELSE IF FromTimestamp(Head(commits).committed_date) = "ValueError"
    THEN HistoryOfCommits(Tail(commits), commit_history)
    ELSE [raises |-> TRUE, value |-> commit_history]

\* lines 52-56: the branches in turn; iter_commits raises for a name the
\* repository does not know
RECURSIVE HistoryOfBranches(_, _, _)
HistoryOfBranches(git, branches, commit_history) ==
    IF branches = <<>> THEN [raises |-> FALSE, value |-> commit_history]
    ELSE LET branch == Strip(RemoveChar(Head(branches), "*"))
         IN  IF branch \notin DOMAIN git.log
             THEN [raises |-> TRUE, value |-> commit_history]
             ELSE LET r == HistoryOfCommits(git.log[branch], commit_history)
                  IN  IF r.raises THEN r
                      ELSE HistoryOfBranches(git, Tail(branches), r.value)

\* get_commit_history(repo, branches)
get_commit_history(git, branches) == HistoryOfBranches(git, branches, <<>>)

\* write_commit_history_to_file: the text of the file
CommitBlock(commit) ==
    <<"S","H","A",":"," ">> \o commit.sha \o <<"\n">>
    \o <<"A","u","t","h","o","r",":"," ">> \o commit.author \o <<"\n">>
    \o <<"D","a","t","e",":"," ">> \o commit.date \o <<"\n">>
    \o <<"M","e","s","s","a","g","e",":"," ">> \o commit.message \o <<"\n">>
    \o <<"F","i","l","e","s",":","\n">>
    \o Concat([i \in 1..Len(commit.files) |->
                 <<" "," ">> \o commit.files[i].file_name \o <<":"," ">>
                     \o commit.files[i].stats \o <<"\n">>])
    \o <<"\n">>

write_commit_history_to_file(commit_history) ==
    Concat([i \in 1..Len(commit_history) |-> CommitBlock(commit_history[i])])

\* ------------------------------------------------------ the manifest readers
\* re.match(r"(\w+)==([\d.]+)", line): the groups, or no match
MatchPin(line) ==
    LET name == TakeWhile(line, Word)
        rest == Drop(line, Len(name))
        version == TakeWhile(Drop(rest, 2), Digit \cup {"."})
    IN  IF name # <<>> /\ Len(rest) >= 2 /\ SubSeq(rest, 1, 2) = <<"=","=">> /\ version # <<>>
        THEN [match |-> TRUE, package_name |-> name, version |-> version]
        ELSE [match |-> FALSE, package_name |-> <<>>, version |-> <<>>]

\* re.match(r'([a-zA-Z0-9-_]+)([=><!~]+)(\d(?:\d|\.|\w|\*|)*)', line)
MatchConstraint(line) ==
    LET name == TakeWhile(line, Lower \cup Upper \cup Digit \cup {"-", "_"})
        rest == Drop(line, Len(name))
        op == TakeWhile(rest, {"=", ">", "<", "!", "~"})
        tail == Drop(rest, Len(op))
        version == TakeWhile(tail, Word \cup {".", "*"})
    IN  IF name # <<>> /\ op # <<>> /\ tail # <<>> /\ Head(tail) \in Digit
        THEN [match |-> TRUE, package_name |-> name, version |-> version]
        ELSE [match |-> FALSE, package_name |-> <<>>, version |-> <<>>]

\* package_versions[package_name] = version for each match, in the order
\* of the lines: a later line of a name replaces an earlier one
RECURSIVE VersionsOf(_, _)
VersionsOf(matches, package_versions) ==
    IF matches = <<>> THEN package_versions
    ELSE VersionsOf(Tail(matches),
             IF Head(matches).match
             THEN [n \in DOMAIN package_versions \cup {Head(matches).package_name} |->
                      IF n = Head(matches).package_name THEN Head(matches).version
                      ELSE package_versions[n]]
             ELSE package_versions)

\* the empty dict
EmptyDict == [n \in {} |-> <<>>]

\* get_package_versions(filename), of the lines of the file
get_package_versions(lines) ==
    VersionsOf([i \in 1..Len(lines) |-> MatchPin(lines[i])], EmptyDict)

\* extract_dependency_version(file_path), of the lines of the file
extract_dependency_version(lines) ==
    VersionsOf([i \in 1..Len(lines) |-> MatchConstraint(lines[i])], EmptyDict)

\* ------------------------------------------------ the repository traversed
\* file names of the repository: two Python sources and a text file
A_PY == <<"a",".","p","y">>
B_PY == <<"b",".","p","y">>
C_MD == <<"c",".","m","d">>
DOT_PY == <<".","p","y">>

OS == <<"o","s">>
RE == <<"r","e">>
P  == <<"p">>

\* pydriller's ModificationType
ModificationType == {"ADD", "COPY", "RENAME", "DELETE", "MODIFY", "UNKNOWN"}

\* source texts: "import os"; "from os import p"; "from . import p";
\* "def f():\n    import re\nimport os\nimport os"; a text with a syntax
\* error; and no text at all (source_code None: ast.parse raises TypeError)
SrcImportOs == [parse |-> "ok", body |-> <<Import(<<OS>>)>>]
SrcFromOs   == [parse |-> "ok", body |-> <<ImportFrom(OS, <<P>>)>>]
SrcRelative == [parse |-> "ok", body |-> <<ImportFrom(None, <<P>>)>>]
SrcTwice    == [parse |-> "ok",
                body |-> <<FunctionDef(<<Import(<<RE>>)>>), Import(<<OS>>), Import(<<OS>>)>>]
SrcBroken   == [parse |-> "SyntaxError", body |-> <<>>]
SrcNone     == [parse |-> "TypeError", body |-> <<>>]

ModifiedFile(filename, change_type, source_code) ==
    [filename |-> filename, change_type |-> change_type, source_code |-> source_code]

\* the modified files a commit can hold
ModifiedFiles ==
    { ModifiedFile(A_PY, "ADD", SrcImportOs),
      ModifiedFile(A_PY, "MODIFY", SrcFromOs),
      ModifiedFile(A_PY, "MODIFY", SrcBroken),
      ModifiedFile(A_PY, "MODIFY", SrcNone),
      ModifiedFile(A_PY, "DELETE", SrcNone),
      ModifiedFile(B_PY, "ADD", SrcTwice),
      ModifiedFile(B_PY, "RENAME", SrcRelative),
      ModifiedFile(C_MD, "MODIFY", SrcNone) }

\* a commit of the traversal: reading its modified_files either raises
\* ValueError (the library fails to resolve the diff) or gives the list
Commit(raises, modified_files) == [raises |-> raises, modified_files |-> modified_files]

\* the commits that take at most w loop iterations: one for the commit and
\* one for each of its modified files
CommitsWithin(w) ==
    IF w < 1 THEN {}
    ELSE {Commit(TRUE, <<>>)} \cup
         {Commit(FALSE, l) : l \in ListsUpTo(ModifiedFiles, w - 1)}

RECURSIVE Work(_)
Work(t) == IF t = <<>> THEN 0 ELSE 1 + Len(Head(t).modified_files) + Work(Tail(t))

VARIABLES
    repo_url, local_directory,   \* arguments of extract_dependencies
    traversal,                   \* the commits repo.traverse_commits() has yielded
    end_of_history,              \* TRUE once the traversal is known to end there
    repo,                        \* the path the Repository was made from
    dependencies,                \* dict, in insertion order: <<[file_name, imports], ...>>
    ignored_files,
    other_extensions,
    ci,                          \* commits taken from the traversal
    mi,                          \* modified files of commit ci already visited
    pcE                          \* idle, call, traverse, returned, raised

VARIABLES
    git,                         \* the repository as GitPython shows it
    manifest,                    \* the lines of requirements.txt
    branches_arg,                \* argument of a call of get_commit_history
    merged_branches, unmerged_branches,
    commit_history,
    package_versions,
    results,                     \* the files of the results directory
    pc,                          \* where the script is; "none": it is not running
    bi,                          \* the branches of line 219 already written
    run,                         \* the run of the script: first or second
    first_run,                   \* the files the first run left
    pcF                          \* a function called by itself: its name, returned, raised

scriptVars == <<git, manifest, branches_arg, merged_branches, unmerged_branches,
                commit_history, package_versions, results, pc, bi, run, first_run, pcF>>

extractVars == <<repo_url, local_directory, traversal, end_of_history, repo, dependencies,
                 ignored_files, other_extensions, ci, mi, pcE>>

\* ------------------------------------------------------------- dict helpers
Keys(d) == {d[i].file_name : i \in 1..Len(d)}
Get(d, k) == (CHOOSE i \in 1..Len(d) : d[i].file_name = k)
Imports(d, k) == d[Get(d, k)].imports
\* d[k] = v: a new key goes last, a known key keeps its place
Put(d, k, v) ==
    IF k \in Keys(d)
    THEN [d EXCEPT ![Get(d, k)] = [file_name |-> k, imports |-> v]]
    ELSE Append(d, [file_name |-> k, imports |-> v])

\* ----------------------------------------------------- extract_dependencies
\* lines 150-155 with a check that refuses two arguments as it refuses none
RepositoryArg_strict(url, dir) ==
    IF url # None /\ dir = None THEN [raises |-> FALSE, path |-> url]
    ELSE IF url = None /\ dir # None THEN [raises |-> FALSE, path |-> dir]
    ELSE [raises |-> TRUE, path |-> None]

\* lines 150-155: the path the Repository is made from, or the ValueError
RepositoryArg(url, dir) ==
    IF url # None THEN [raises |-> FALSE, path |-> url]
    ELSE IF dir # None THEN [raises |-> FALSE, path |-> dir]
    ELSE [raises |-> TRUE, path |-> None]

\* line 163
IsPython(filename) == EndsWith(filename, DOT_PY)

\* line 165 with every change scanned that leaves the file in place
IsScanned_all(change_type) == change_type # "DELETE"

\* line 165
IsScanned(change_type) == change_type = "ADD" \/ change_type = "MODIFY"

\* lines 173-176 with the entry of a known file replaced
NewEntry_overwrite(d, file_name, file_dependencies) == {file_dependencies}

\* lines 173-176: the lists the entry of a file can become: the imports
\* found for a new file, the union with them, in any order, for a known one
NewEntry(d, file_name, file_dependencies) ==
    IF file_name \in Keys(d)
    THEN ListOfSet(Range(Imports(d, file_name)) \cup Range(file_dependencies))
    ELSE {file_dependencies}

\* lines 171-181 with every failed extraction counted
IgnoredAfter_anyFailure(n, result) == IF result.kind # "list" THEN n + 1 ELSE n

\* lines 171-181: the counter after a file whose extraction gave result
IgnoredAfter(n, result) == IF result.kind = "None" THEN n + 1 ELSE n

\* line 184
OtherAfter(other, filename) == Append(other, filename)

\* lines 144-155
ExtractCall ==
    /\ pcE = "call"
    /\ dependencies' = <<>>
    /\ ignored_files' = 0
    /\ other_extensions' = <<>>
    /\ LET r == RepositoryArg(repo_url, local_directory)
       IN  /\ repo' = r.path
           /\ pcE' = IF r.raises THEN "raised" ELSE "traverse"
    /\ ci' = 0
    /\ mi' = 0
    /\ UNCHANGED <<repo_url, local_directory, traversal, end_of_history>>
    /\ UNCHANGED scriptVars

\* the commit being visited
Current == traversal[ci]

CommitFinished ==
    IF ci = 0 THEN TRUE
    ELSE IF Current.raises THEN TRUE
    ELSE mi = Len(Current.modified_files)

\* the loop iterations a traversal may take
WorkLimit ==
    IF pc # "none" THEN MaxMainWork
    ELSE IF repo_url = None /\ local_directory # None THEN MaxWork
    ELSE MaxCallWork

\* lines 158-161 and 185-187: the next commit of the traversal, one the
\* repository is already known to hold or else a further one; a ValueError
\* of its modified_files is printed and the commit is left
NextCommit ==
    /\ pcE = "traverse"
    /\ CommitFinished
    /\ IF ci < Len(traversal)
       THEN traversal' = traversal
       ELSE /\ ~end_of_history
            /\ \E c \in CommitsWithin(WorkLimit - Work(traversal)) :
                   traversal' = Append(traversal, c)
    /\ ci' = ci + 1
    /\ mi' = 0
    /\ UNCHANGED <<repo_url, local_directory, end_of_history, repo, dependencies,
                   ignored_files, other_extensions, pcE>>
    /\ UNCHANGED scriptVars

\* lines 161-184: one modified file of the commit
VisitModifiedFile ==
    /\ pcE = "traverse"
    /\ ~CommitFinished
    /\ LET mod == Current.modified_files[mi + 1]
           result == extract_imports(mod.source_code)
       IN  IF IsPython(mod.filename)
           THEN /\ other_extensions' = other_extensions
                /\ IF IsScanned(mod.change_type)
                   THEN /\ ignored_files' = IgnoredAfter(ignored_files, result)
                        /\ IF result.kind = "list"
                           THEN \E l \in NewEntry(dependencies, mod.filename, result.value) :
                                    dependencies' = Put(dependencies, mod.filename, l)
                           ELSE dependencies' = dependencies
                   ELSE UNCHANGED <<dependencies, ignored_files>>
           ELSE /\ other_extensions' = OtherAfter(other_extensions, mod.filename)
                /\ UNCHANGED <<dependencies, ignored_files>>
    /\ mi' = mi + 1
    /\ UNCHANGED <<repo_url, local_directory, traversal, end_of_history, repo, ci, pcE>>
    /\ UNCHANGED scriptVars

\* line 190: the traversal has no further commit
ExtractReturn ==
    /\ pcE = "traverse"
    /\ CommitFinished
    /\ ci = Len(traversal)
    /\ end_of_history' = TRUE
    /\ pcE' = "returned"
    /\ UNCHANGED <<repo_url, local_directory, traversal, repo, dependencies,
                   ignored_files, other_extensions, ci, mi>>
    /\ UNCHANGED scriptVars

\* the arguments a caller can pass
SOME_URL == <<"u">>
SOME_DIR == <<"d">>

\* no file
NoResults ==
    [branches |-> None, history |-> [b \in {} |-> None], dependencies |-> None,
     ignored_files |-> None, other_extensions |-> None]

\* a repository with no branch listed and no commit
NoGit == [branches |-> <<>>, active |-> None, merged |-> {}, log |-> [b \in {} |-> <<>>]]

\* the script's state before it runs, its functions' state before a call
ScriptIdle ==
    /\ merged_branches = <<>>
    /\ unmerged_branches = <<>>
    /\ commit_history = <<>>
    /\ package_versions = EmptyDict
    /\ results = NoResults
    /\ bi = 0
    /\ run = 1
    /\ first_run = NoResults

ExtractIdle ==
    /\ traversal = <<>>
    /\ end_of_history = FALSE
    /\ repo = None
    /\ dependencies = <<>>
    /\ ignored_files = 0
    /\ other_extensions = <<>>
    /\ ci = 0
    /\ mi = 0

\* a call extract_dependencies(repo_url, local_directory) with any arguments,
\* on a repository of which nothing is known yet
ExtractInit ==
    /\ repo_url \in {None, SOME_URL}
    /\ local_directory \in {None, SOME_DIR}
    /\ ExtractIdle
    /\ pcE = "call"
    /\ git = NoGit
    /\ manifest = <<>>
    /\ branches_arg = <<>>
    /\ ScriptIdle
    /\ pc = "none"
    /\ pcF = "none"

ExtractNext == ExtractCall \/ NextCommit \/ VisitModifiedFile \/ ExtractReturn

vars == <<extractVars, scriptVars>>

SpecDeps == ExtractInit /\ [][ExtractNext]_vars

\* ------------------------------------------------- the repositories given
\* branch names, in the order of the refs
BRANCH_NAMES == <<<<"d">>, <<"e">>, <<"f">>, <<"m">>, <<"n">>, <<"o">>>>

\* the repositories whose branches are some of the names given, one of
\* them checked out, with no commit looked at
Repositories(names) ==
    { [branches |-> SelectSeq(names, LAMBDA b : b \in B),
       active |-> a,
       merged |-> M \cup {a},
       log |-> [b \in B |-> <<>>]] :
      B \in SUBSET Range(names) \ {{}}, a \in Range(names), M \in SUBSET Range(names) }

WellFormed(g) == g.active \in Range(g.branches) /\ g.merged \subseteq Range(g.branches)

\* the commits of the repository
GitCommit(hexsha, committed_date) ==
    [hexsha |-> hexsha, author |-> <<"a","n","n">>, committed_date |-> committed_date,
     message |-> <<"f","i","x","\n">>,
     files |-> <<[file_name |-> A_PY, stats |-> <<"{","}">>]>>]

C1_COMMIT == GitCommit(<<"c","1">>, [era |-> "day0", secs |-> 0])
C2_COMMIT == GitCommit(<<"c","2">>, [era |-> "day0", secs |-> 3661])
C3_COMMIT == GitCommit(<<"c","3">>, [era |-> "year>9999", secs |-> 0])
C4_COMMIT == GitCommit(<<"c","4">>, [era |-> "beyond time_t", secs |-> 0])
GitCommits == {C1_COMMIT, C2_COMMIT, C3_COMMIT, C4_COMMIT}

\* the logs of at most n commits: no commit twice
Logs(n) == {l \in ListsUpTo(GitCommits, n) : Cardinality(Range(l)) = Len(l)}

\* ------------------------------------------------- list_branches by itself
CallListBranches ==
    /\ pcF = "list_branches"
    /\ \E r \in list_branches(git) :
          /\ merged_branches' = r.merged_branches
          /\ unmerged_branches' = r.unmerged_branches
          /\ results' = [results EXCEPT !.branches = r.file]
    /\ pcF' = "returned"
    /\ UNCHANGED <<git, manifest, branches_arg, commit_history, package_versions,
                   pc, bi, run, first_run>>
    /\ UNCHANGED extractVars

BranchesInit ==
    /\ git \in {g \in Repositories(SubSeq(BRANCH_NAMES, 1, MaxBranches)) : WellFormed(g)}
    /\ pcF = "list_branches"
    /\ manifest = <<>>
    /\ branches_arg = <<>>
    /\ ScriptIdle
    /\ pc = "none"
    /\ repo_url = None
    /\ local_directory = None
    /\ ExtractIdle
    /\ pcE = "idle"

SpecBranches == BranchesInit /\ [][CallListBranches]_vars

\* -------------------------------------------- get_commit_history by itself
CallGetCommitHistory ==
    /\ pcF = "get_commit_history"
    /\ LET r == get_commit_history(git, branches_arg)
       IN  /\ commit_history' = r.value
           /\ pcF' = IF r.raises THEN "raised" ELSE "returned"
    /\ UNCHANGED <<git, manifest, branches_arg, merged_branches, unmerged_branches,
                   package_versions, results, pc, bi, run, first_run>>
    /\ UNCHANGED extractVars

D_BRANCH == <<"d">>
M_BRANCH == <<"m">>

\* branches d and m, m checked out and d merged into it, with any logs; the
\* names given are lines of list_branches or plain names, with repetitions
HistoryInit ==
    /\ git \in { [branches |-> <<D_BRANCH, M_BRANCH>>, active |-> M_BRANCH,
                  merged |-> {D_BRANCH, M_BRANCH}, log |-> log] :
                 log \in [{D_BRANCH, M_BRANCH} -> Logs(MaxLog)] }
    /\ branches_arg \in ListsUpTo({<<"*"," ">> \o M_BRANCH, D_BRANCH, M_BRANCH},
                                  MaxHistoryBranches)
    /\ pcF = "get_commit_history"
    /\ manifest = <<>>
    /\ ScriptIdle
    /\ pc = "none"
    /\ repo_url = None
    /\ local_directory = None
    /\ ExtractIdle
    /\ pcE = "idle"

SpecHistory == HistoryInit /\ [][CallGetCommitHistory]_vars

\* --------------------------------------------------------------- __main__
FILE_LABEL == <<"F","i","l","e",":"," ">>
DEPENDENCIES_LABEL == <<"D","e","p","e","n","d","e","n","c","i","e","s",":">>
UNKNOWN == <<"u","n","k","n","o","w","n">>
IGNORED_LABEL == <<"N","u","m","b","e","r"," ","o","f"," ","i","g","n","o","r","e","d"," ","f","i","l","e","s"," ","d","u","e"," ","t","o"," ","s","y","n","t","a","x"," ","i","s","s","u","e","s",":"," ">>
OTHER_HEADING == <<"F","i","l","e","s"," ","w","i","t","h"," ","d","i","f","f","e","r","e","n","t"," ","e","x","t","e","n","s","i","o","n","s",":","\n">>

\* line 243: package_versions.get(dependency.split('.')[0], "unknown")
VersionOf(versions, dependency) ==
    IF SplitFirst(dependency, ".") \in DOMAIN versions
    THEN versions[SplitFirst(dependency, ".")]
    ELSE UNKNOWN

\* lines 233-245: the text of dependencies.txt
DependenciesFile(deps, versions) ==
    Concat([i \in 1..Len(deps) |->
        FILE_LABEL \o deps[i].file_name \o <<"\n">>
        \o DEPENDENCIES_LABEL \o <<"\n">>
        \o Concat([j \in 1..Len(deps[i].imports) |->
               <<" "," ">> \o deps[i].imports[j] \o <<" ","="," ">>
                   \o VersionOf(versions, deps[i].imports[j]) \o <<"\n">>])
        \o <<"\n">>])

\* lines 249-250
IgnoredFile(n) == IGNORED_LABEL \o ToDecimal(n) \o <<"\n">>

\* lines 253-256
OtherFile(other) ==
    OTHER_HEADING \o Concat([i \in 1..Len(other) |-> <<" "," ">> \o other[i] \o <<"\n">>])

\* line 230: the table the report is annotated with
ReportVersions(lines) == get_package_versions(lines)

\* lines 195-207: the directory is there, or the script exits with 1; a
\* second run finds what the first found
MainStart ==
    /\ pc = "start"
    /\ \E exists \in BOOLEAN :
          /\ run = 2 => exists
          /\ pc' = IF exists THEN "list_branches_1" ELSE "exit_1"
    /\ UNCHANGED <<git, manifest, branches_arg, merged_branches, unmerged_branches,
                   commit_history, package_versions, results, bi, run, first_run, pcF>>
    /\ UNCHANGED extractVars

\* lines 210 and 213: list_branches, twice
MainListBranches ==
    /\ pc \in {"list_branches_1", "list_branches_2"}
    /\ \E r \in list_branches(git) :
          /\ merged_branches' = r.merged_branches
          /\ unmerged_branches' = r.unmerged_branches
          /\ results' = [results EXCEPT !.branches = r.file]
    /\ pc' = IF pc = "list_branches_1" THEN "list_branches_2" ELSE "history"
    /\ UNCHANGED <<git, manifest, branches_arg, commit_history, package_versions,
                   bi, run, first_run, pcF>>
    /\ UNCHANGED extractVars

\* line 216: the history of all the merged branches, which nothing reads
MainHistory ==
    /\ pc = "history"
    /\ LET r == get_commit_history(git, merged_branches)
       IN  /\ commit_history' = r.value
           /\ pc' = IF r.raises THEN "crashed" ELSE "history_files"
    /\ bi' = 0
    /\ UNCHANGED <<git, manifest, branches_arg, merged_branches, unmerged_branches,
                   package_versions, results, run, first_run, pcF>>
    /\ UNCHANGED extractVars

\* lines 219-224: the history of one merged branch, written to its file
MainHistoryFile ==
    /\ pc = "history_files"
    /\ bi < Len(merged_branches)
    /\ LET branch_name == merged_branches[bi + 1]
           r == get_commit_history(git, <<branch_name>>)
       IN  /\ commit_history' = r.value
           /\ IF r.raises
              THEN /\ pc' = "crashed"
                   /\ results' = results
              ELSE /\ pc' = pc
                   /\ results' = [results EXCEPT !.history =
                          [b \in DOMAIN results.history \cup {branch_name} |->
                              IF b = branch_name
                              THEN write_commit_history_to_file(r.value)
                              ELSE results.history[b]]]
    /\ bi' = bi + 1
    /\ UNCHANGED <<git, manifest, branches_arg, merged_branches, unmerged_branches,
                   package_versions, run, first_run, pcF>>
    /\ UNCHANGED extractVars

\* lines 195-197 and 227: the call of extract_dependencies
MainExtract ==
    /\ pc = "history_files"
    /\ bi = Len(merged_branches)
    /\ pc' = "extract"
    /\ repo_url' = None
    /\ local_directory' = SOME_DIR
    /\ pcE' = "call"
    /\ UNCHANGED <<traversal, end_of_history, repo, dependencies, ignored_files,
                   other_extensions, ci, mi>>
    /\ UNCHANGED <<git, manifest, branches_arg, merged_branches, unmerged_branches,
                   commit_history, package_versions, results, bi, run, first_run, pcF>>

\* line 230, once extract_dependencies has returned
MainVersions ==
    /\ pc = "extract"
    /\ pcE = "returned"
    /\ package_versions' = ReportVersions(manifest)
    /\ pc' = "dependencies"
    /\ UNCHANGED <<git, manifest, branches_arg, merged_branches, unmerged_branches,
                   commit_history, results, bi, run, first_run, pcF>>
    /\ UNCHANGED extractVars

\* lines 233-245
MainWriteDependencies ==
    /\ pc = "dependencies"
    /\ results' = [results EXCEPT !.dependencies = DependenciesFile(dependencies, package_versions)]
    /\ pc' = "ignored_files"
    /\ UNCHANGED <<git, manifest, branches_arg, merged_branches, unmerged_branches,
                   commit_history, package_versions, bi, run, first_run, pcF>>
    /\ UNCHANGED extractVars

\* lines 249-250
MainWriteIgnored ==
    /\ pc = "ignored_files"
    /\ results' = [results EXCEPT !.ignored_files = IgnoredFile(ignored_files)]
    /\ pc' = "other_extensions"
    /\ UNCHANGED <<git, manifest, branches_arg, merged_branches, unmerged_branches,
                   commit_history, package_versions, bi, run, first_run, pcF>>
    /\ UNCHANGED extractVars

\* lines 253-256
MainWriteOther ==
    /\ pc = "other_extensions"
    /\ results' = [results EXCEPT !.other_extensions = OtherFile(other_extensions)]
    /\ pc' = "done"
    /\ UNCHANGED <<git, manifest, branches_arg, merged_branches, unmerged_branches,
                   commit_history, package_versions, bi, run, first_run, pcF>>
    /\ UNCHANGED extractVars

\* the script is run again: a new process, on the same repository, the same
\* manifest and the results directory the first run left
RunAgain ==
    /\ pc = "done"
    /\ run = 1
    /\ run' = 2
    /\ first_run' = results
    /\ pc' = "start"
    /\ merged_branches' = <<>>
    /\ unmerged_branches' = <<>>
    /\ commit_history' = <<>>
    /\ package_versions' = EmptyDict
    /\ bi' = 0
    /\ pcE' = "idle"
    /\ repo' = None
    /\ dependencies' = <<>>
    /\ ignored_files' = 0
    /\ other_extensions' = <<>>
    /\ ci' = 0
    /\ mi' = 0
    /\ UNCHANGED <<git, manifest, branches_arg, results, pcF,
                   repo_url, local_directory, traversal, end_of_history>>

\* the lines requirements.txt can hold: "os==1.0", "os==2", "os>=3", "# os"
MANIFEST_LINES ==
    { <<"o","s","=","=","1",".","0","\n">>,
      <<"o","s","=","=","2","\n">>,
      <<"o","s",">","=","3","\n">>,
      <<"#"," ","o","s","\n">> }

\* the repositories of a run of the script: branches d, f and m, m checked
\* out, one commit in each branch
MainRepositories ==
    { [g EXCEPT !.log = [b \in Range(g.branches) |-> <<C2_COMMIT>>]] :
      g \in {h \in Repositories(<<<<"d">>, <<"f">>, <<"m">>>>) :
                 WellFormed(h) /\ h.active = <<"m">>} }

MainInit ==
    /\ git \in MainRepositories
    /\ manifest \in ListsUpTo(MANIFEST_LINES, MaxManifest)
    /\ branches_arg = <<>>
    /\ ScriptIdle
    /\ pc = "start"
    /\ pcF = "none"
    /\ repo_url = None
    /\ local_directory = None
    /\ ExtractIdle
    /\ pcE = "idle"

MainNext ==
    \/ MainStart \/ MainListBranches \/ MainHistory \/ MainHistoryFile \/ MainExtract
    \/ ExtractCall \/ NextCommit \/ VisitModifiedFile \/ ExtractReturn
    \/ MainVersions \/ MainWriteDependencies \/ MainWriteIgnored \/ MainWriteOther
    \/ RunAgain

SpecMain == MainInit /\ [][MainNext]_vars

\* ------------------------------------------- claims on extract_dependencies
RECURSIVE FilesOf(_)
FilesOf(t) ==
    IF t = <<>> THEN <<>> ELSE Head(t).modified_files \o FilesOf(Tail(t))

\* the modified files visited so far, in the order of the traversal
Visited ==
    IF ci = 0 THEN <<>>
    ELSE FilesOf(SubSeq(traversal, 1, ci - 1)) \o SubSeq(Current.modified_files, 1, mi)

\* a step that visits the next modified file of the current commit
AtFile == pcE = "traverse" /\ ~CommitFinished
NextFile == Current.modified_files[mi + 1]

Advances == pcE' = "traverse" /\ ci' = ci /\ mi' = mi + 1

\* an added or modified Python file
Revision(m) ==
    /\ EndsWith(m.filename, DOT_PY)
    /\ m.change_type \in {"ADD", "MODIFY"}
Parsed(m) == Revision(m) /\ m.source_code.parse = "ok"
ParseFails(m) == Revision(m) /\ m.source_code.parse = "SyntaxError"
Fails(m) == Revision(m) /\ m.source_code.parse \notin {"ok", "SyntaxError"}

\* the names imported by a source that parses, whatever their order
Imported(src) == UNION {Range(NodeModules(n)) : n \in {x \in Range(Walk(src.body)) :
                                                        x.node \in {"Import", "ImportFrom"}}}

\* C1 as stated: the call is accepted exactly when one of repo_url and
\* local_directory is non-null, and fails with ValueError, before any commit
\* is traversed and with no result, in every other case.
C1_ExactlyOne ==
    pcE # "call" =>
        /\ (pcE = "raised") <=> ~((repo_url = None) # (local_directory = None))
        /\ pcE = "raised" => (ci = 0 /\ traversal = <<>>)

\* C1 amended: the call fails with ValueError, before any commit is traversed
\* and with no result, exactly when both repo_url and local_directory are
\* null; with both non-null it is accepted and works on repo_url.
C1_AtLeastOne ==
    pcE # "call" =>
        /\ (pcE = "raised") <=> (repo_url = None /\ local_directory = None)
        /\ pcE = "raised" => (ci = 0 /\ traversal = <<>> /\ dependencies = <<>>)
        /\ pcE # "raised" => repo = (IF repo_url # None THEN repo_url ELSE local_directory)

C1_Witness == pcE = "raised" /\ repo_url = None /\ local_directory = None

\* every import of every revision parsed so far is recorded for its file
Recorded ==
    \A i \in 1..Len(Visited) :
        Parsed(Visited[i]) =>
            /\ Visited[i].filename \in Keys(dependencies)
            /\ Imported(Visited[i].source_code)
                   \subseteq Range(Imports(dependencies, Visited[i].filename))

\* C2: during the traversal the mapping only grows: a step keeps every key
\* and, for each key, every import recorded; so the imports of every parsed
\* revision stay recorded until the traversal ends, also when a later
\* revision of the file lacks them.
C2_OnlyGrows ==
    /\ [][pcE = "traverse" =>
            \A k \in Keys(dependencies) :
                /\ k \in Keys(dependencies')
                /\ Range(Imports(dependencies, k)) \subseteq Range(Imports(dependencies', k))]_vars
    /\ []Recorded

\* the traversal has ended with, for some file, an import of an earlier
\* revision that a later parsed revision of the file does not have
C2_Witness ==
    /\ pcE = "returned"
    /\ \E i, j \in 1..Len(Visited) :
          /\ i < j
          /\ Parsed(Visited[i]) /\ Parsed(Visited[j])
          /\ Visited[i].filename = Visited[j].filename
          /\ ~(Imported(Visited[i].source_code) \subseteq Imported(Visited[j].source_code))

\* C3: a revision whose source fails to parse leaves the mapping and the
\* other-extensions list as they were and adds exactly one to the counter,
\* so the counter is the number of revisions visited that failed to parse.
C3_ParseFailureCounted ==
    /\ [][(AtFile /\ ParseFails(NextFile)) =>
            /\ dependencies' = dependencies
            /\ other_extensions' = other_extensions
            /\ ignored_files' = ignored_files + 1]_vars
    /\ [](ignored_files = Len(SelectSeq(Visited, ParseFails)))

C3_Witness ==
    /\ pcE = "returned"
    /\ ignored_files >= 1
    /\ dependencies # <<>>
    /\ \E i \in 1..Len(Visited) : Fails(Visited[i])

\* C8 as stated: every entry of the mapping is a set, no imported name
\* occurs twice in the entry of a file.
C8_EntriesAreSets ==
    \A i \in 1..Len(dependencies) :
        Cardinality(Range(dependencies[i].imports)) = Len(dependencies[i].imports)

\* the file names of the parsed revisions, each at its first occurrence
RECURSIVE FirstOccurrences(_, _)
FirstOccurrences(names, seen) ==
    IF names = <<>> THEN <<>>
    ELSE IF Head(names) \in seen THEN FirstOccurrences(Tail(names), seen)
    ELSE <<Head(names)>> \o FirstOccurrences(Tail(names), seen \cup {Head(names)})

FileNames(files) == [i \in 1..Len(files) |-> files[i].filename]

\* the three results are those of visiting the files given: the keys in the
\* order the files were first parsed, for each key the imports of all its
\* parsed revisions, the parse failures counted, the other names listed
ResultsOf(files) ==
    LET parsed == SelectSeq(files, Parsed)
    IN  /\ [i \in 1..Len(dependencies) |-> dependencies[i].file_name]
               = FirstOccurrences(FileNames(parsed), {})
        /\ \A i \in 1..Len(dependencies) :
               Range(dependencies[i].imports) =
                   UNION {Imported(parsed[j].source_code) :
                          j \in {x \in 1..Len(parsed) :
                                 parsed[x].filename = dependencies[i].file_name}}
        /\ ignored_files = Len(SelectSeq(files, ParseFails))
        /\ other_extensions =
               FileNames(SelectSeq(files, LAMBDA m : ~EndsWith(m.filename, DOT_PY)))

\* C9: a revision whose extraction raises another exception than a parse
\* failure changes none of the three results, the traversal goes on with the
\* next file of the commit, and the results are at every point those of a
\* traversal without the failing files.
C9_OtherFailureSkipsOnlyTheFile ==
    /\ [][(AtFile /\ Fails(NextFile)) =>
            /\ dependencies' = dependencies
            /\ ignored_files' = ignored_files
            /\ other_extensions' = other_extensions
            /\ Advances]_vars
    /\ []ResultsOf(SelectSeq(Visited, LAMBDA m : ~Fails(m)))

\* the traversal has ended after a failing file that was followed by another
\* file of its commit and by a later commit, both with a result
C9_Witness ==
    /\ pcE = "returned"
    /\ ci >= 2
    /\ ~traversal[1].raises
    /\ Len(traversal[1].modified_files) >= 2
    /\ Fails(traversal[1].modified_files[1])
    /\ ~Fails(traversal[1].modified_files[2])
    /\ traversal[2].modified_files # <<>>
    /\ Len(dependencies) + ignored_files + Len(other_extensions) >= 2

C4_Unmerged ==
    pcF = "returned" =>
        /\ Range(unmerged_branches) =
               (Range(git.branches) \ Range(merged_branches)) \ {git.active}
        /\ Cardinality(Range(unmerged_branches)) = Len(unmerged_branches)
        /\ Range(unmerged_branches) \cap Range(merged_branches) = {}
        /\ git.active \notin Range(unmerged_branches)
        /\ Len(merged_branches) = Cardinality(git.merged)
        /\ \A b \in git.merged :
              \E i \in 1..Len(merged_branches) :
                  merged_branches[i] = (IF b = git.active THEN <<"*"," ">> \o b ELSE b)

\* list_branches has returned two or more unmerged branches, and the branch
\* checked out, which the merged list holds only with its marker, is not one
C4_Witness ==
    /\ pcF = "returned"
    /\ Len(unmerged_branches) >= 2
    /\ Len(merged_branches) >= 2
    /\ git.active \notin Range(merged_branches)

\* --------------------------------------------- claims on get_commit_history
\* the branch a name given stands for
BranchOf(name) == SelectSeq(name, LAMBDA c : c \notin {"*", " "})

Formats(commit) == commit.committed_date.era # "year>9999"

\* C5: the history returned is, for the branches in the order given, the
\* commits of the branch in the order of its log, those left out whose
\* formatting raises ValueError; a commit is there once for each occurrence
\* of a branch that holds it.
C5_HistoryOrder ==
    pcF = "returned" =>
        /\ [i \in 1..Len(commit_history) |-> commit_history[i].sha] =
               Flatten([i \in 1..Len(branches_arg) |->
                   LET kept == SelectSeq(git.log[BranchOf(branches_arg[i])], Formats)
                   IN  [j \in 1..Len(kept) |-> kept[j].hexsha]])
        /\ \A c \in GitCommits :
               Cardinality({i \in 1..Len(commit_history) : commit_history[i].sha = c.hexsha}) =
               Cardinality({i \in 1..Len(branches_arg) :
                               Formats(c) /\ c \in Range(git.log[BranchOf(branches_arg[i])])})

\* a history returned for two branches, the first with a commit that cannot
\* be formatted before one that can, and a commit that both branches hold
C5_Witness ==
    /\ pcF = "returned"
    /\ Len(branches_arg) = 2
    /\ BranchOf(branches_arg[1]) # BranchOf(branches_arg[2])
    /\ LET first == git.log[BranchOf(branches_arg[1])]
           second == git.log[BranchOf(branches_arg[2])]
       IN  /\ Len(first) = 2
           /\ ~Formats(first[1])
           /\ Formats(first[2])
           /\ first[2] \in Range(second)
    /\ Len(commit_history) >= 2

\* ------------------------------------------------------ claims on __main__
\* C6 as stated: a second run on the same repository and manifest leaves
\* branches.txt, dependencies.txt, ignored_files.txt and other_extensions.txt
\* with the text the first run left.
C6_SameFiles ==
    (pc = "done" /\ run = 2) =>
        /\ results.branches = first_run.branches
        /\ results.dependencies = first_run.dependencies
        /\ results.ignored_files = first_run.ignored_files
        /\ results.other_extensions = first_run.other_extensions

\* the table of the lines that declare a dependency in either form, the
\* last line of a name kept
DeclaredVersions(lines) ==
    VersionsOf([i \in 1..Len(lines) |->
                   IF MatchPin(lines[i]).match THEN MatchPin(lines[i])
                   ELSE MatchConstraint(lines[i])],
               EmptyDict)

\* C7 as stated: the version table has an entry for every line of the
\* manifest that declares a dependency as name==version or as
\* name<operator>version, and a line of dependencies.txt carries "unknown"
\* exactly when no such line declares the package named before the first
\* '.' of the import, the declared version otherwise.
C7_VersionTable ==
    pc = "done" =>
        /\ package_versions = DeclaredVersions(manifest)
        /\ results.dependencies = DependenciesFile(dependencies, DeclaredVersions(manifest))
====
